---- MODULE Spec2Model ----
(***************************************************************************)
(* Transcription job orchestrator of backend/server.js (the revision with  *)
(* ffmpeg chunking, the Gemini inline provider and the /cancel endpoint).  *)
(* One job (one clientId) is modelled.  Every action is one run of the     *)
(* Node.js event loop: a request handler, a child-process callback or the  *)
(* continuation of an awaited promise, executed to its next await.         *)
(***************************************************************************)
EXTENDS Integers, Sequences, FiniteSets, TLC

\* ---------------------------------------------------------------- bounds
MaxChunks == 2      \* most chunk files one ffmpeg run writes
MaxConn == 1        \* most GET /progress connections opened for the job
MaxCancel == 1      \* most POST /cancel requests for the job
MaxReconnect == 2   \* most connections where reconnection is looked at
MaxData == 2        \* most 'data' events of the file stream
MaxResults == 2     \* most Transcript and Metadata events of a connection

\* ------------------------------------------------------ program constants
DIRECT_PROCESSING_THRESHOLD_SEC == 30
MB == 1048576
MAX_INLINE_BYTES == 15 * MB
DefaultChunkSizeMB == 10
DefaultSegmentDurationSec == 600
MinSegmentDurationSec == 10
MaxSegmentDurationSec == 900

\* ------------------------------------------------------------ text tokens
\* A text is a sequence of tokens.  A positive token i is the word spoken in
\* chunk file i, WholeFile the word of an unsegmented file, WS a whitespace
\* character, Marker the "\nSummary:" marker and SummaryWord a summary word.
WholeFile == 0
WS == -1
Marker == -2
SummaryWord == -3

Speaker == -4       \* a "Speaker n: " label of a diarized paragraph
NullTok == -9
Null == <<NullTok>> \* the null that transcribeChunkPrerecorded returns

NoSeg == -1         \* "seg" field of an event that is about no chunk

\* numbers as JavaScript has them
NaN == -1
Missing == -2       \* an undefined property
Infinity == 999999999

NullCode == -1      \* the null exit code of a process ended by a signal

\* readyState of a WebSocket
CONNECTING == 0
OPEN == 1
CLOSING == 2
CLOSED == 3
NoLive == -1        \* deepgramLive is null
NotExited == -2     \* no 'close' event of ffmpeg yet

VARIABLES
    pc,                     \* position of processTranscription
    opts,                   \* arguments of processTranscription
    mediaDurationSec,       \* play time of the uploaded file
    fileBufferLength,       \* fileBuffer.length of transcribeWithGemini
    probe,                  \* what the ffprobe analysis came to
    geminiModel,            \* TRUE iff the Gemini model was initialised
    duration,               \* let duration
    segmentDurationSec,     \* -segment_time given to ffmpeg
    ffmpeg,                 \* state of the ffmpeg child process
    ffmpegWritten,          \* number of the last chunk file ffmpeg wrote
    ffmpegCode,             \* code given to the 'close' handler of ffmpeg
    activeProcesses,        \* activeProcesses[clientId], {} when absent
    fileExists,             \* the uploaded file is on disk
    chunkFiles,             \* numbers of the <clientId>_chunk_NNN.mp3 on disk
    chunkPaths,             \* let chunkPaths
    pos,                    \* loop position (i + 1) of the call in flight
    accumulatedTranscript,  \* let accumulatedTranscript
    outcome,                \* per audio unit: what its attempt came to
    text,                   \* per audio unit: plain text the provider gave
    sseConnections,         \* sseConnections[clientId], 0 when absent
    openConns,              \* connections whose 'close' has not fired yet
    connCount,              \* connections opened so far
    timers,                 \* armed setTimeout callbacks that close the SSE
    events,                 \* the job's progress events, in emission order
    thrown,                 \* error caught by the top-level catch
    cancelCount,            \* cancel requests handled so far
    cancelledAt,            \* where the job was when the first one came
    \* the stores of the server as a whole, with two jobs under way
    jobs,                   \* clientId -> the locals of processTranscription
    sseConnectionsAll,      \* clientId -> what was last written to its res
    activeProcessesAll,     \* clientId -> processes registered under it
    uploadsDir,             \* names of the files in uploads/
    \* the live-streaming revision (streamFileToDeepgram), one job
    livePc,                 \* position of its processTranscription
    liveSummarize,          \* summarizeEnabled
    deepgramLive,           \* readyState of the connection, NoLive when null
    fileStream,             \* state of the read stream of the upload
    resolved,               \* let resolved
    connectionClosed,       \* let connectionClosed
    promise,                \* state of the promise of streamFileToDeepgram
    settleCalls,            \* calls of resolve() and reject() so far
    dataRead,               \* 'data' events of the file stream so far
    audioSent,              \* deepgramLive.send calls so far
    results,                \* Transcript and Metadata events so far
    liveEvents,             \* sendProgress calls of the job, in order
    liveFileExists,         \* the uploaded file is on disk
    liveSse,                \* sseConnections[clientId] is there
    liveTimers              \* armed setTimeout callbacks of the job

oneJobVars == <<pc, opts, geminiModel, duration, segmentDurationSec, ffmpeg,
                ffmpegWritten, activeProcesses, fileExists, chunkFiles, chunkPaths,
                pos, accumulatedTranscript, outcome, text, sseConnections,
                openConns, connCount, timers, events, thrown, cancelCount,
                cancelledAt, ffmpegCode, mediaDurationSec, fileBufferLength,
                probe>>

jobsVars == <<jobs, sseConnectionsAll, activeProcessesAll, uploadsDir>>

liveVars == <<livePc, liveSummarize, deepgramLive, fileStream, resolved,
              connectionClosed, promise, settleCalls, dataRead, audioSent,
              results, liveEvents, liveFileExists, liveSse, liveTimers>>

vars == <<oneJobVars, jobsVars, liveVars>>

Units == 0..MaxChunks          \* 0 is the original file (direct mode)
FfmpegHandle == 1

\* ------------------------------------------------------------ pure helpers
Range(s) == {s[i] : i \in 1..Len(s)}

Min(a, b) == IF a < b THEN a ELSE b
Max(a, b) == IF a > b THEN a ELSE b

\* a rounding that adds one to every quotient, the exact ones too
CeilDivFloorPlusOne(a, b) == a \div b + 1

\* Math.ceil(a / b) for a >= 0, b > 0
CeilDiv(a, b) == (a + b - 1) \div b

RECURSIVE TrimLeft(_)
TrimLeft(s) == IF s # <<>> /\ Head(s) = WS THEN TrimLeft(Tail(s)) ELSE s

RECURSIVE TrimRight(_)
TrimRight(s) ==
    IF s # <<>> /\ s[Len(s)] = WS THEN TrimRight(SubSeq(s, 1, Len(s) - 1))
    ELSE s

\* String.prototype.trim
Trim(s) == TrimRight(TrimLeft(s))

\* Array.prototype.sort on the zero-padded chunk names: ascending numbers
RECURSIVE SortedSeq(_)
SortedSeq(S) ==
    IF S = {} THEN <<>>
    ELSE LET m == CHOOSE x \in S : \A y \in S : x <= y
         IN <<m>> \o SortedSeq(S \ {m})

\* one sendProgress(clientId, type, data) call; "sent" tells whether
\* sseConnections[clientId] was there to receive it or the call dropped it
Ev(type, msg, seg) ==
    [type |-> type, msg |-> msg, seg |-> seg, sent |-> sseConnections # 0]

NoCancel == [pc |-> "none", pos |-> 0]

\* no ffprobe analysis yet; also a probeData.format without duration and size
NoProbe == [failed |-> FALSE, duration |-> Missing, size |-> Missing]
\* the ffprobe analysis failed or its output could not be parsed
FailedProbe == [failed |-> TRUE, duration |-> Missing, size |-> Missing]

NoOpts == [useGemini |-> FALSE, diarizeEnabled |-> FALSE,
           summarizeEnabled |-> FALSE, chunkSizeMB |-> DefaultChunkSizeMB]

\* ------------------------------------------------------------- two jobs
\* two uuidv4() values
JobIds == {"a", "b"}

NoConn == "none"

\* the locals of a processTranscription call that has not started
NewJob ==
    [pc |-> "idle", ffmpeg |-> "none", ffmpegWritten |-> 0,
     chunkPaths |-> <<>>, pos |-> 0, accumulatedTranscript |-> <<>>,
     timers |-> 0, cancelCount |-> 0]

\* req.file.path: the name multer gives the upload of the request
UploadName(clientId) == <<"upload", clientId>>

\* `${clientId}_chunk_%03d.mp3` as ffmpeg fills it in
ChunkName(clientId, n) == <<clientId, "_chunk_", n, ".mp3">>

\* String.prototype.startsWith and endsWith
StartsWith(f, prefix) ==
    Len(f) >= Len(prefix) /\ SubSeq(f, 1, Len(prefix)) = prefix
EndsWith(f, suffix) ==
    Len(f) >= Len(suffix) /\
    SubSeq(f, Len(f) - Len(suffix) + 1, Len(f)) = suffix

Init ==
    /\ pc = "idle"
    /\ opts = NoOpts
    /\ geminiModel \in BOOLEAN
    /\ duration = Infinity
    /\ segmentDurationSec = DefaultSegmentDurationSec
    /\ ffmpeg = "none"
    /\ ffmpegWritten = 0
    /\ ffmpegCode = NotExited
    /\ mediaDurationSec = 0
    /\ fileBufferLength = 0
    /\ probe = NoProbe
    /\ activeProcesses = {}
    /\ fileExists = FALSE
    /\ chunkFiles = {}
    /\ chunkPaths = <<>>
    /\ pos = 0
    /\ accumulatedTranscript = <<>>
    /\ outcome = [u \in Units |-> "none"]
    /\ text = [u \in Units |-> <<>>]
    /\ sseConnections = 0
    /\ openConns = {}
    /\ connCount = 0
    /\ timers = 0
    /\ events = <<>>
    /\ thrown = "none"
    /\ cancelCount = 0
    /\ cancelledAt = NoCancel
    /\ jobs = [id \in JobIds |-> NewJob]
    /\ sseConnectionsAll = [id \in JobIds |-> NoConn]
    /\ activeProcessesAll = [id \in JobIds |-> {}]
    /\ uploadsDir = {}
    /\ livePc = "idle"
    /\ liveSummarize = FALSE
    /\ deepgramLive = NoLive
    /\ fileStream = "none"
    /\ resolved = FALSE
    /\ connectionClosed = FALSE
    /\ promise = "pending"
    /\ settleCalls = 0
    /\ dataRead = 0
    /\ audioSent = 0
    /\ results = 0
    /\ liveEvents = <<>>
    /\ liveFileExists = FALSE
    /\ liveSse = FALSE
    /\ liveTimers = 0

\* ------------------------------------------------- POST /transcribe inputs
Exts == {"mp3", "txt", "bin"}
FileSizes == {MAX_INLINE_BYTES, MAX_INLINE_BYTES + 1}
\* req.body.chunkSizeMB after parseInt; 0 stands for absent, NaN and 0
RequestedChunkSizes == {0, -1}
\* play time in seconds of the uploaded file
MediaDurations == {DIRECT_PROCESSING_THRESHOLD_SEC,
                   DIRECT_PROCESSING_THRESHOLD_SEC + 1}

\* the extension table of transcribeWithGemini, then mime.lookup
MimeType(ext) ==
    CASE ext = "mp3" -> "audio/mp3"
      [] ext = "txt" -> "text/plain"
      [] OTHER -> "application/octet-stream"

\* parseInt(req.body.chunkSizeMB, 10) || 10
EndpointChunkSizeMB(raw) == IF raw = 0 THEN DefaultChunkSizeMB ELSE raw

\* chunkSizeMB && chunkSizeMB > 0 ? chunkSizeMB : 10
EffectiveChunkSizeMB(c) == IF c # 0 /\ c > 0 THEN c ELSE DefaultChunkSizeMB

\* a threshold test that lets the threshold itself through
GreaterOrEqual(a, b) == a # NaN /\ b # NaN /\ a >= b

\* a > b in JavaScript, where either side may be NaN
Greater(a, b) == a # NaN /\ b # NaN /\ a > b

\* ----------------------------------------------------- ends of the job
\* error.message?.includes('Gemini processing failed') or 'Deepgram failed':
\* the messages of the errors thrown in this file that contain either phrase
MessagesAlreadyReported == {}

\* a finally block that leaves the uploaded file on disk
FinallyKeepsUpload(err, evs, files, paths) ==
    [pc |-> "finished", thrown |-> err, events |-> evs, fileExists |-> TRUE,
     chunkFiles |-> files \ Range(paths),
     timers |-> IF sseConnections # 0 THEN timers + 1 ELSE timers]

\* the finally block of processTranscription
Finally(err, evs, files, paths) ==
    [pc |-> "finished", thrown |-> err, events |-> evs, fileExists |-> FALSE,
     chunkFiles |-> files \ Range(paths),
     timers |-> IF sseConnections # 0 THEN timers + 1 ELSE timers]

\* the top-level catch of processTranscription, then finally
TopLevelCatch(err, evs, files, paths) ==
    Finally(err,
            IF err \notin MessagesAlreadyReported
            THEN Append(evs, Ev("error", "processing_failed", NoSeg))
            ELSE evs,
            files, paths)

\* the message the catch of transcribeWithGemini sends for an error
GeminiErrorMsg(err) ==
    CASE err = "api_404" -> "model_not_found"
      [] err = "api_quota" -> "quota_exceeded"
      [] err = "mime_undetermined" -> "unsupported_file_type"
      [] OTHER -> "gemini_processing_failed"

\* the catch of transcribeWithGemini: report, rethrow to the top level
GeminiCatch(err, evs) ==
    TopLevelCatch(err, Append(evs, Ev("error", GeminiErrorMsg(err), NoSeg)),
                  chunkFiles, <<>>)

\* the job goes on: nothing is deleted and no timer is armed
Continue(p, evs, files) ==
    [pc |-> p, thrown |-> "none", events |-> evs, fileExists |-> TRUE,
     chunkFiles |-> files, timers |-> timers]

Apply(r) ==
    /\ pc' = r.pc
    /\ thrown' = r.thrown
    /\ events' = r.events
    /\ fileExists' = r.fileExists
    /\ chunkFiles' = r.chunkFiles
    /\ timers' = r.timers

\* a size check that turns away a file of exactly the limit
GeminiStartLimitExcluded(ext, size, evs) ==
    LET evs1 == evs \o <<Ev("status", "processing_with_model", NoSeg),
                         Ev("status", "preparing_audio", NoSeg)>>
    IN IF MimeType(ext) = "application/octet-stream"
       THEN GeminiCatch("mime_undetermined", evs1)
       ELSE IF size >= MAX_INLINE_BYTES
       THEN GeminiCatch("file_too_large", evs1)
       ELSE Continue("gemini_wait",
                     Append(evs1, Ev("status", "sending_request", NoSeg)),
                     chunkFiles)

\* a Gemini path that goes on to the ffprobe duration command
GeminiStartViaProber(ext, size, evs) ==
    Continue("duration_wait",
             evs \o <<Ev("status", "processing_with_model", NoSeg),
                      Ev("status", "preparing_audio", NoSeg)>>,
             chunkFiles)

\* transcribeWithGemini up to its await of generateContent
GeminiStart(ext, size, evs) ==
    LET evs1 == evs \o <<Ev("status", "processing_with_model", NoSeg),
                         Ev("status", "preparing_audio", NoSeg)>>
    IN IF MimeType(ext) = "application/octet-stream"
       THEN GeminiCatch("mime_undetermined", evs1)
       ELSE IF size > MAX_INLINE_BYTES
       THEN GeminiCatch("file_too_large", evs1)
       ELSE Continue("gemini_wait",
                     Append(evs1, Ev("status", "sending_request", NoSeg)),
                     chunkFiles)

\* POST /transcribe with req.body.chunkSizeMB drawn from sizes:
\* processTranscription runs to its first await
TranscribeRequest(sizes) ==
    /\ pc = "idle"
    /\ \E g \in BOOLEAN, d \in BOOLEAN, s \in BOOLEAN,
          raw \in sizes, m \in MediaDurations :
        LET evs0 == <<Ev("status", "processing", NoSeg)>> IN
        /\ mediaDurationSec' = m
        /\ opts' = [useGemini |-> g, diarizeEnabled |-> d,
                    summarizeEnabled |-> s,
                    chunkSizeMB |-> IF g THEN DefaultChunkSizeMB
                                    ELSE EffectiveChunkSizeMB(
                                             EndpointChunkSizeMB(raw))]
        /\ IF g
           THEN IF ~geminiModel
                THEN /\ Apply(TopLevelCatch("gemini_not_configured", evs0,
                                            chunkFiles, <<>>))
                     /\ UNCHANGED fileBufferLength
                ELSE \E ext \in Exts, size \in FileSizes :
                         /\ fileBufferLength' = size
                         /\ Apply(GeminiStart(ext, size, evs0))
           ELSE /\ Apply(Continue("duration_wait", evs0, chunkFiles))
                /\ UNCHANGED fileBufferLength
    /\ UNCHANGED <<jobsVars, liveVars>>
    /\ UNCHANGED <<probe, ffmpegCode>>
    /\ UNCHANGED <<geminiModel, duration, segmentDurationSec, ffmpeg,
                   ffmpegWritten, activeProcesses, chunkPaths, pos,
                   accumulatedTranscript, outcome, text, sseConnections,
                   openConns, connCount, cancelCount, cancelledAt>>

Transcribe == TranscribeRequest(RequestedChunkSizes)

\* ------------------------------------------------------- progress channel
\* GET /progress/:clientId; its 'connected' greeting goes to the new
\* connection only and is no progress event of the job
ConnectRequest(maxConn) ==
    /\ pc # "idle"
    /\ connCount < maxConn
    /\ connCount' = connCount + 1
    /\ sseConnections' = connCount + 1
    /\ openConns' = openConns \cup {connCount + 1}
    /\ UNCHANGED <<jobsVars, liveVars>>
    /\ UNCHANGED <<ffmpegCode, mediaDurationSec, fileBufferLength, probe>>
    /\ UNCHANGED <<pc, opts, geminiModel, duration, segmentDurationSec,
                   ffmpeg, ffmpegWritten, activeProcesses, fileExists,
                   chunkFiles, chunkPaths, pos, accumulatedTranscript,
                   outcome, text, timers, events, thrown, cancelCount,
                   cancelledAt>>

Connect == ConnectRequest(MaxConn)

\* req.on('close') of one connection
ConnClose ==
    /\ \E c \in openConns : openConns' = openConns \ {c}
    /\ sseConnections' = 0
    /\ UNCHANGED <<jobsVars, liveVars>>
    /\ UNCHANGED <<ffmpegCode, mediaDurationSec, fileBufferLength, probe>>
    /\ UNCHANGED <<pc, opts, geminiModel, duration, segmentDurationSec,
                   ffmpeg, ffmpegWritten, activeProcesses, fileExists,
                   chunkFiles, chunkPaths, pos, accumulatedTranscript,
                   outcome, text, connCount, timers, events, thrown,
                   cancelCount, cancelledAt>>

\* a setTimeout callback armed by finally or by the cancel handler
TimerFire ==
    /\ timers > 0
    /\ timers' = timers - 1
    /\ sseConnections' = 0
    /\ UNCHANGED <<jobsVars, liveVars>>
    /\ UNCHANGED <<ffmpegCode, mediaDurationSec, fileBufferLength, probe>>
    /\ UNCHANGED <<pc, opts, geminiModel, duration, segmentDurationSec,
                   ffmpeg, ffmpegWritten, activeProcesses, fileExists,
                   chunkFiles, chunkPaths, pos, accumulatedTranscript,
                   outcome, text, openConns, connCount, events, thrown,
                   cancelCount, cancelledAt>>

\* ------------------------------------------------------------ cancellation
\* a cancel handler that kills the processes but unlinks nothing
CancelCleanupNone(files) == {}

\* the files the cancel handler unlinks: <clientId>_chunk_*.mp3
CancelCleanup(files) == {f \in files : f \in 1..MaxChunks}

\* a cancel handler that forgets the processes without signalling them
KillProcessesNone(procs, state) == state

\* process.kill('SIGTERM') on every process of activeProcesses[clientId]:
\* the state of ffmpeg afterwards
KillProcesses(procs, state) ==
    IF FfmpegHandle \in procs /\ state = "running" THEN "signalled"
    ELSE state

\* POST /cancel/:clientId
Cancel ==
    /\ pc # "idle"
    /\ cancelCount < MaxCancel
    /\ cancelCount' = cancelCount + 1
    /\ cancelledAt' = IF cancelCount = 0 THEN [pc |-> pc, pos |-> pos]
                      ELSE cancelledAt
    /\ ffmpeg' = KillProcesses(activeProcesses, ffmpeg)
    /\ activeProcesses' = {}
    /\ chunkFiles' = chunkFiles \ CancelCleanup(chunkFiles)
    /\ IF sseConnections # 0
       THEN /\ events' = events \o
                   <<Ev("status", "cancelled", NoSeg),
                     Ev("done", "cancelled", NoSeg)>>
            /\ timers' = timers + 1
       ELSE UNCHANGED <<events, timers>>
    /\ UNCHANGED <<jobsVars, liveVars>>
    /\ UNCHANGED <<ffmpegCode, mediaDurationSec, fileBufferLength, probe>>
    /\ UNCHANGED <<pc, opts, geminiModel, duration, segmentDurationSec,
                   ffmpegWritten, fileExists, chunkPaths, pos,
                   accumulatedTranscript, outcome, text, sseConnections,
                   openConns, connCount, thrown>>

\* ------------------------------------------------------ summary and done
\* a summary stage that does not look at the transcript
AfterTranscriptionAnyTranscript(acc, evs, files, paths) ==
    IF opts.summarizeEnabled /\ geminiModel
    THEN Continue("summary_wait",
                  Append(evs, Ev("status", "generating_summary", NoSeg)),
                  files)
    ELSE LET w == IF opts.summarizeEnabled
                  THEN <<Ev("warning", "summary_skipped_no_key", NoSeg)>>
                  ELSE <<>>
         IN Finally("none",
                    evs \o w \o <<Ev("done", "finished", NoSeg)>>,
                    files, paths)

\* processTranscription from "Summarize Deepgram transcript" to finally
AfterTranscription(acc, evs, files, paths) ==
    IF opts.summarizeEnabled /\ Len(Trim(acc)) > 0 /\ geminiModel
    THEN Continue("summary_wait",
                  Append(evs, Ev("status", "generating_summary", NoSeg)),
                  files)
    ELSE LET w == IF opts.summarizeEnabled /\ ~geminiModel
                  THEN <<Ev("warning", "summary_skipped_no_key", NoSeg)>>
                  ELSE IF opts.summarizeEnabled
                  THEN <<Ev("warning", "summary_skipped_no_transcript",
                            NoSeg)>>
                  ELSE <<>>
         IN Finally("none",
                    evs \o w \o <<Ev("done", "finished", NoSeg)>>,
                    files, paths)

\* ------------------------------------------------------- batch provider
\* what deepgramClient.listen.prerecorded.transcribeFile can come to for
\* audio unit c: an error, or a plain text (empty for silence) with or
\* without paragraphs
UnitTexts(c) == {<<>>, <<c>>}

ProviderResults(c) ==
    {[ok |-> FALSE, plain |-> <<>>, paragraphs |-> FALSE]} \cup
    {[ok |-> TRUE, plain |-> t, paragraphs |-> g] :
        t \in UnitTexts(c),
        g \in IF opts.diarizeEnabled THEN BOOLEAN ELSE {FALSE}}

\* formattedTranscript of transcribeChunkPrerecorded
FormattedTranscript(res) ==
    IF opts.diarizeEnabled /\ res.paragraphs
    THEN <<Speaker>> \o res.plain \o <<WS, WS>>
    ELSE res.plain \o <<WS>>

\* transcribeChunkPrerecorded after its await: the value it returns and the
\* events it has sent
TranscribeChunkReturn(c, res, evs) ==
    IF res.ok
    THEN [ret |-> res.plain,
          events |-> IF Len(Trim(FormattedTranscript(res))) > 0
                     THEN Append(evs, Ev("partial_transcript", "transcript",
                                         c))
                     ELSE evs]
    ELSE [ret |-> Null,
          events |-> Append(evs, Ev("error", "deepgram_failed", c))]

\* a slip of the accumulation: the new text is put in front
AccumulateChunkPrepend(acc, chunkTranscript) ==
    IF chunkTranscript # Null THEN chunkTranscript \o acc ELSE acc

\* a slip of the accumulation: the null of a failed chunk is appended too
AccumulateChunkNoNullCheck(acc, chunkTranscript) == acc \o chunkTranscript

\* if (chunkTranscript !== null) { accumulatedTranscript += chunkTranscript; }
AccumulateChunk(acc, chunkTranscript) ==
    IF chunkTranscript # Null THEN acc \o chunkTranscript ELSE acc

\* a loop that submits a chunk and goes on to the next one without
\* awaiting the call
RECURSIVE LoopFromNoAwait(_, _, _, _, _)
LoopFromNoAwait(paths, p, files, evs, out) ==
    IF p > Len(paths)
    THEN [pos |-> p, files |-> files, outcome |-> out, inflight |-> FALSE,
          events |-> Append(evs, Ev("status", "all_chunks_processed",
                                    NoSeg))]
    ELSE LET c == paths[p]
             evs1 == Append(evs, Ev("status", "transcribing_chunk", c))
         IN IF c \in files
            THEN LoopFromNoAwait(paths, p + 1, files, evs1,
                                 [out EXCEPT ![c] = "inflight"])
            ELSE LoopFromNoAwait(paths, p + 1, files,
                          Append(evs1, Ev("error", "deepgram_failed", c)),
                          [out EXCEPT ![c] = "unread"])

\* The for loop over chunkPaths from position p, run until a provider call
\* is in flight or the loop is over.  A chunk whose file is gone makes
\* readFileSync throw inside transcribeChunkPrerecorded: an error event,
\* null returned, nothing submitted.  "seg" of an event is the chunk's file
\* number.
RECURSIVE LoopFrom(_, _, _, _, _)
LoopFrom(paths, p, files, evs, out) ==
    IF p > Len(paths)
    THEN [pos |-> p, files |-> files, outcome |-> out, inflight |-> FALSE,
          events |-> Append(evs, Ev("status", "all_chunks_processed",
                                    NoSeg))]
    ELSE LET c == paths[p]
             evs1 == Append(evs, Ev("status", "transcribing_chunk", c))
         IN IF c \in files
            THEN [pos |-> p, files |-> files, inflight |-> TRUE,
                  outcome |-> [out EXCEPT ![c] = "inflight"],
                  events |-> evs1]
            ELSE LoopFrom(paths, p + 1, files,
                          Append(evs1, Ev("error", "deepgram_failed", c)),
                          [out EXCEPT ![c] = "unread"])

\* the loop from position p, and what follows it when it is over
SegmentedFrom(paths, p, files, evs, out, acc) ==
    LET l == LoopFrom(paths, p, files, evs, out)
    IN /\ pos' = l.pos
       /\ outcome' = l.outcome
       /\ Apply(IF l.inflight THEN Continue("chunk_wait", l.events, l.files)
                ELSE AfterTranscription(acc, l.events, l.files, paths))

\* a loop whose finally leaves the chunk file on disk
UnlinkChunkNever(files, c) == files

\* finally { if (fs.existsSync(chunkPath)) { fs.unlinkSync(chunkPath); } }
UnlinkChunk(files, c) == files \ {c}

\* the provider call of the chunk at position pos returns or fails
ChunkReturn ==
    /\ pc = "chunk_wait"
    /\ LET c == chunkPaths[pos] IN
       \E res \in ProviderResults(c) :
        LET t == TranscribeChunkReturn(c, res, events)
            acc == AccumulateChunk(accumulatedTranscript, t.ret)
        IN /\ accumulatedTranscript' = acc
           /\ text' = [text EXCEPT ![c] = res.plain]
           /\ SegmentedFrom(chunkPaths, pos + 1,
                            UnlinkChunk(chunkFiles, c), t.events,
                            [outcome EXCEPT
                                ![c] = IF res.ok THEN "ok" ELSE "fail"],
                            acc)
    /\ UNCHANGED <<jobsVars, liveVars>>
    /\ UNCHANGED <<ffmpegCode, mediaDurationSec, fileBufferLength, probe>>
    /\ UNCHANGED <<opts, geminiModel, duration, segmentDurationSec, ffmpeg,
                   ffmpegWritten, activeProcesses, chunkPaths,
                   sseConnections, openConns, connCount, cancelCount,
                   cancelledAt>>

\* the provider call of direct mode returns or fails
DirectReturn ==
    /\ pc = "direct_wait"
    /\ \E res \in ProviderResults(WholeFile) :
        LET t == TranscribeChunkReturn(WholeFile, res, events)
            acc == IF t.ret # Null THEN t.ret ELSE accumulatedTranscript
        IN /\ accumulatedTranscript' = acc
           /\ text' = [text EXCEPT ![WholeFile] = res.plain]
           /\ outcome' = [outcome EXCEPT
                             ![WholeFile] = IF res.ok THEN "ok" ELSE "fail"]
           /\ Apply(AfterTranscription(acc,
                        Append(t.events,
                               Ev("status", "processing_complete", NoSeg)),
                        chunkFiles, chunkPaths))
    /\ UNCHANGED <<jobsVars, liveVars>>
    /\ UNCHANGED <<ffmpegCode, mediaDurationSec, fileBufferLength, probe>>
    /\ UNCHANGED <<opts, geminiModel, duration, segmentDurationSec, ffmpeg,
                   ffmpegWritten, activeProcesses, chunkPaths, pos,
                   sseConnections, openConns, connCount, cancelCount,
                   cancelledAt>>

\* a summary stage whose catch reports the failure and rethrows it
AfterSummaryRethrow(ok, evs) ==
    IF ok
    THEN Finally("none",
                 evs \o <<Ev("summary_result", "summary", NoSeg),
                          Ev("done", "finished", NoSeg)>>,
                 chunkFiles, chunkPaths)
    ELSE TopLevelCatch("summary_failed",
                       Append(evs, Ev("error", "summary_failed", NoSeg)),
                       chunkFiles, chunkPaths)

\* processTranscription from the return of the summary call to finally: the
\* summary or the caught failure is reported, then done
AfterSummary(ok, evs) ==
    Finally("none",
            evs \o <<IF ok THEN Ev("summary_result", "summary", NoSeg)
                     ELSE Ev("error", "summary_failed", NoSeg),
                     Ev("done", "finished", NoSeg)>>,
            chunkFiles, chunkPaths)

\* geminiModel.generateContent(prompt) of the summary returns or fails
SummaryReturn ==
    /\ pc = "summary_wait"
    /\ \E ok \in BOOLEAN : Apply(AfterSummary(ok, events))
    /\ UNCHANGED <<jobsVars, liveVars>>
    /\ UNCHANGED <<ffmpegCode, mediaDurationSec, fileBufferLength, probe>>
    /\ UNCHANGED <<opts, geminiModel, duration, segmentDurationSec, ffmpeg,
                   ffmpegWritten, activeProcesses, chunkPaths, pos,
                   accumulatedTranscript, outcome, text, sseConnections,
                   openConns, connCount, cancelCount, cancelledAt>>

\* ------------------------------------------------------- duration probe
\* stdout of the ffprobe duration command for a file that plays d seconds:
\* the number, or N/A when the container does not tell it
DurationOutputs(d) ==
    {IF d = DIRECT_PROCESSING_THRESHOLD_SEC THEN "30" ELSE "31", "N/A"}

\* parseFloat
ParseFloat(str) ==
    CASE str = "30" -> 30
      [] str = "31" -> 31
      [] OTHER -> NaN

\* the exec callback of the duration probe, then the choice of the path
DurationProbeDone ==
    /\ pc = "duration_wait"
    /\ \E failed \in BOOLEAN, stdout \in DurationOutputs(mediaDurationSec) :
        LET d == IF failed THEN Infinity ELSE ParseFloat(stdout)
            evs == Append(events,
                          IF failed
                          THEN Ev("status", "duration_unknown", NoSeg)
                          ELSE Ev("status", "file_duration", NoSeg))
        IN /\ duration' = d
           /\ IF Greater(d, DIRECT_PROCESSING_THRESHOLD_SEC)
              THEN /\ Apply(Continue("split_probe_wait",
                                Append(evs, Ev("status", "analyzing",
                                               NoSeg)),
                                chunkFiles))
                   /\ UNCHANGED outcome
              ELSE /\ Apply(Continue("direct_wait",
                                Append(evs, Ev("status",
                                               "transcribing_directly",
                                               NoSeg)),
                                chunkFiles))
                   /\ outcome' = [outcome EXCEPT ![WholeFile] = "inflight"]
    /\ UNCHANGED <<jobsVars, liveVars>>
    /\ UNCHANGED <<ffmpegCode, mediaDurationSec, fileBufferLength, probe>>
    /\ UNCHANGED <<opts, geminiModel, segmentDurationSec, ffmpeg,
                   ffmpegWritten, activeProcesses, chunkPaths, pos,
                   accumulatedTranscript, text, sseConnections, openConns,
                   connCount, cancelCount, cancelledAt>>

\* ------------------------------------------------------------ segmenter
\* format.duration and format.size of the ffprobe JSON, already parsed by
\* parseFloat / parseInt; Missing when the property is absent
ProbeFormats ==
    {[duration |-> 1200, size |-> 25 * MB],
     [duration |-> Missing, size |-> MB]}

\* a segment duration that is computed but not clamped
SegmentDurationUnclamped(probeFailed, format, targetChunkSizeMB) ==
    IF probeFailed \/ format.duration = Missing \/ format.size = Missing
    THEN DefaultSegmentDurationSec
    ELSE IF format.duration # NaN /\ format.size # NaN /\ format.size > 0
    THEN CeilDiv(format.duration,
                 CeilDiv(format.size, targetChunkSizeMB * MB))
    ELSE DefaultSegmentDurationSec

\* segmentDurationSec as splitMediaIntoAudioChunks computes it
SegmentDuration(probeFailed, format, targetChunkSizeMB) ==
    IF probeFailed \/ format.duration = Missing \/ format.size = Missing
    THEN DefaultSegmentDurationSec
    ELSE LET totalDurationSec == format.duration
             totalSizeBytes == format.size
             targetChunkSizeBytes == targetChunkSizeMB * MB
             bitratePositive ==
                 /\ totalDurationSec # NaN
                 /\ totalSizeBytes # NaN
                 /\ totalSizeBytes > 0
             expectedChunks == CeilDiv(totalSizeBytes, targetChunkSizeBytes)
         IN IF bitratePositive
            THEN Max(MinSegmentDurationSec,
                     Min(CeilDiv(totalDurationSec, expectedChunks),
                         MaxSegmentDurationSec))
            ELSE DefaultSegmentDurationSec

\* the exec callback of the ffprobe of splitMediaIntoAudioChunks, then the
\* start of ffmpeg and its registration in activeProcesses
SplitProbe(formats) ==
    /\ pc = "split_probe_wait"
    /\ \E failed \in BOOLEAN, format \in formats :
        /\ probe' = IF failed THEN FailedProbe
                    ELSE [failed |-> FALSE, duration |-> format.duration,
                          size |-> format.size]
        /\ segmentDurationSec' =
               SegmentDuration(failed, format, opts.chunkSizeMB)
        /\ Apply(Continue("ffmpeg_wait",
                     Append(events,
                            IF failed
                            THEN Ev("warning", "could_not_analyze", NoSeg)
                            ELSE Ev("status", "splitting", NoSeg)),
                     chunkFiles))
    /\ ffmpeg' = "running"
    /\ activeProcesses' = activeProcesses \cup {FfmpegHandle}
    /\ UNCHANGED <<jobsVars, liveVars>>
    /\ UNCHANGED <<fileBufferLength, ffmpegCode, mediaDurationSec>>
    /\ UNCHANGED <<opts, geminiModel, duration, ffmpegWritten, chunkPaths,
                   pos, accumulatedTranscript, outcome, text,
                   sseConnections, openConns, connCount, cancelCount,
                   cancelledAt>>

SplitProbeDone == SplitProbe(ProbeFormats)

\* ffmpeg writes its next chunk file; a process that was sent SIGTERM runs
\* until it exits and may still write
FfmpegWrite ==
    /\ ffmpeg \in {"running", "signalled"}
    /\ ffmpegWritten < MaxChunks
    /\ ffmpegWritten' = ffmpegWritten + 1
    /\ chunkFiles' = chunkFiles \cup {ffmpegWritten + 1}
    /\ UNCHANGED <<jobsVars, liveVars>>
    /\ UNCHANGED <<ffmpegCode, mediaDurationSec, fileBufferLength, probe>>
    /\ UNCHANGED <<pc, opts, geminiModel, duration, segmentDurationSec,
                   ffmpeg, activeProcesses, fileExists, chunkPaths, pos,
                   accumulatedTranscript, outcome, text, sseConnections,
                   openConns, connCount, timers, events, thrown,
                   cancelCount, cancelledAt>>

ExitCodes(state) == IF state = "signalled" THEN {0, 1, NullCode} ELSE {0, 1}

\* a 'close' handler that returns without settling the promise when the
\* process was ended by a signal
FfmpegCloseVerdictHang(code, connected, nChunks) ==
    IF code = NullCode THEN "pending"
    ELSE IF code # 0 THEN "ffmpeg_code"
    ELSE IF ~connected THEN "client_disconnected"
    ELSE IF nChunks = 0 THEN "no_chunks"
    ELSE "resolve"

\* what the 'close' handler of ffmpeg does with the promise
FfmpegCloseVerdict(code, connected, nChunks) ==
    IF code # 0 /\ code # NullCode THEN "ffmpeg_code"
    ELSE IF ~connected THEN "client_disconnected"
    ELSE IF nChunks = 0 THEN "no_chunks"
    ELSE "resolve"

\* handlers that leave the process in activeProcesses[clientId]
UnregisterNothing(procs, h) == procs

\* removal of the process from activeProcesses[clientId]
Unregister(procs, h) == procs \ {h}

\* ffmpegProcess.on('close'), and the continuation of processTranscription
FfmpegClose ==
    /\ pc = "ffmpeg_wait"
    /\ ffmpeg \in {"running", "signalled"}
    /\ \E code \in ExitCodes(ffmpeg) :
        LET v == FfmpegCloseVerdict(code, sseConnections # 0,
                                    Cardinality(chunkFiles))
            chunks == SortedSeq(chunkFiles)
            found == Append(events, Ev("status", "found_chunks", NoSeg))
        IN /\ ffmpegCode' = code
           /\ CASE v = "resolve" ->
                    /\ chunkPaths' = chunks
                    /\ SegmentedFrom(chunks, 1, chunkFiles, found, outcome,
                                     accumulatedTranscript)
                [] v = "no_chunks" ->
                    /\ Apply(TopLevelCatch(v, found, chunkFiles,
                                           chunkPaths))
                    /\ UNCHANGED <<chunkPaths, pos, outcome>>
                [] v \in {"ffmpeg_code", "client_disconnected"} ->
                    /\ Apply(TopLevelCatch(v, events, chunkFiles,
                                           chunkPaths))
                    /\ UNCHANGED <<chunkPaths, pos, outcome>>
                [] OTHER ->
                    UNCHANGED <<pc, thrown, events, fileExists, chunkFiles,
                                timers, chunkPaths, pos, outcome>>
    /\ ffmpeg' = "exited"
    /\ activeProcesses' = Unregister(activeProcesses, FfmpegHandle)
    /\ UNCHANGED <<jobsVars, liveVars>>
    /\ UNCHANGED <<mediaDurationSec, fileBufferLength, probe>>
    /\ UNCHANGED <<opts, geminiModel, duration, segmentDurationSec,
                   ffmpegWritten, accumulatedTranscript, text,
                   sseConnections, openConns, connCount, cancelCount,
                   cancelledAt>>

\* ffmpegProcess.on('error'): the process could not be started
FfmpegError ==
    /\ pc = "ffmpeg_wait"
    /\ ffmpeg = "running"
    /\ ffmpegWritten = 0
    /\ ffmpeg' = "exited"
    /\ activeProcesses' = Unregister(activeProcesses, FfmpegHandle)
    /\ Apply(TopLevelCatch("ffmpeg_exec_error", events, chunkFiles,
                           chunkPaths))
    /\ UNCHANGED <<jobsVars, liveVars>>
    /\ UNCHANGED <<ffmpegCode, mediaDurationSec, fileBufferLength, probe>>
    /\ UNCHANGED <<opts, geminiModel, duration, segmentDurationSec,
                   ffmpegWritten, chunkPaths, pos, accumulatedTranscript,
                   outcome, text, sseConnections, openConns, connCount,
                   cancelCount, cancelledAt>>

\* ------------------------------------------------------ inline provider
\* responseText of generateContent
GeminiResponses ==
    {<<>>, <<WholeFile>>, <<WholeFile, Marker, SummaryWord>>,
     <<Marker, SummaryWord>>, <<WholeFile, Marker>>}

GeminiErrors == {"api_404", "api_quota", "api_other"}

\* responseText.lastIndexOf(summaryMarker), 0 when absent
RECURSIVE LastIndexOf(_, _)
LastIndexOf(str, tok) ==
    IF str = <<>> THEN 0
    ELSE IF str[Len(str)] = tok THEN Len(str)
    ELSE LastIndexOf(SubSeq(str, 1, Len(str) - 1), tok)

\* step 6 of transcribeWithGemini: transcript, summary (Null when none)
ParseGeminiResponse(responseText, summarizeEnabled) ==
    LET summaryIndex == LastIndexOf(responseText, Marker)
    IN IF summarizeEnabled /\ summaryIndex # 0
       THEN [transcript |-> Trim(SubSeq(responseText, 1, summaryIndex - 1)),
             summary |-> Trim(SubSeq(responseText, summaryIndex + 1,
                                     Len(responseText)))]
       ELSE [transcript |-> responseText, summary |-> Null]

\* transcribeWithGemini after its await, then done and finally
GeminiReturn ==
    /\ pc = "gemini_wait"
    /\ \/ \E err \in GeminiErrors : Apply(GeminiCatch(err, events))
       \/ \E responseText \in GeminiResponses :
           LET r == ParseGeminiResponse(responseText, opts.summarizeEnabled)
               evs1 == IF r.summary # Null
                       THEN Append(events,
                                   Ev("summary_result", "summary", NoSeg))
                       ELSE events
           IN IF Len(Trim(r.transcript)) > 0
              THEN Apply(Finally("none",
                           evs1 \o
                           <<Ev("partial_transcript", "transcript",
                                WholeFile),
                             Ev("done", "finished", NoSeg)>>,
                           chunkFiles, chunkPaths))
              ELSE IF ~opts.summarizeEnabled \/ r.summary \in {Null, <<>>}
              THEN Apply(GeminiCatch("no_valid_transcript", evs1))
              ELSE Apply(Finally("none",
                           Append(evs1, Ev("done", "finished", NoSeg)),
                           chunkFiles, chunkPaths))
    /\ UNCHANGED <<jobsVars, liveVars>>
    /\ UNCHANGED <<ffmpegCode, mediaDurationSec, fileBufferLength, probe>>
    /\ UNCHANGED <<opts, geminiModel, duration, segmentDurationSec, ffmpeg,
                   ffmpegWritten, activeProcesses, chunkPaths, pos,
                   accumulatedTranscript, outcome, text, sseConnections,
                   openConns, connCount, cancelCount, cancelledAt>>

\* ---------------------------------------------------------- specification
Next ==
    \/ Transcribe
    \/ Connect
    \/ ConnClose
    \/ TimerFire
    \/ Cancel
    \/ DurationProbeDone
    \/ SplitProbeDone
    \/ FfmpegWrite
    \/ FfmpegClose
    \/ FfmpegError
    \/ ChunkReturn
    \/ DirectReturn
    \/ SummaryReturn
    \/ GeminiReturn

Spec == Init /\ [][Next]_vars

\* Every callback the job waits for is eventually delivered: exec calls
\* back, a child process closes, a provider promise settles.
JobStep ==
    \/ DurationProbeDone
    \/ SplitProbeDone
    \/ FfmpegClose
    \/ FfmpegError
    \/ ChunkReturn
    \/ DirectReturn
    \/ SummaryReturn
    \/ GeminiReturn

FairSpec == Spec /\ WF_vars(JobStep)

\* ... and every armed setTimeout callback runs
TimerFairSpec == FairSpec /\ WF_vars(TimerFire)

\* the callbacks of the provider calls
ProviderStep ==
    \/ ChunkReturn
    \/ DirectReturn
    \/ SummaryReturn
    \/ GeminiReturn

\* Provider calls settle and timers run, but a child process need not
\* exit: exec is given no timeout, so nothing in the program ends it.
HungProcessSpec == Spec /\ WF_vars(ProviderStep) /\ WF_vars(TimerFire)

\* --------------------------------------------- segment duration alone
\* The path of a job to the start of ffmpeg, with the requested chunk size
\* and the output of the ffprobe analysis drawn from wider sets.
SegRequestedChunkSizes == {0, -1, 5, 10, 25}
SegDurations == {Missing, NaN, 0, 5, 1200, 5000}
SegSizes == {Missing, NaN, 0, 1, 5 * MB, 25 * MB + 1, 100 * MB}
SegProbeFormats ==
    {[duration |-> d, size |-> z] : d \in SegDurations, z \in SegSizes}

SegTranscribe == TranscribeRequest(SegRequestedChunkSizes)
SegSplitProbeDone == SplitProbe(SegProbeFormats)

SegNext ==
    \/ SegTranscribe
    \/ DurationProbeDone
    \/ SegSplitProbeDone

SegSpec == Init /\ [][SegNext]_vars

\* ------------------------------------------------------- reconnection
\* The job with a client that opens the progress stream more than once.
Reconnect == ConnectRequest(MaxReconnect)

ReconnectNext ==
    \/ Transcribe
    \/ Reconnect
    \/ ConnClose
    \/ TimerFire
    \/ Cancel
    \/ DurationProbeDone
    \/ SplitProbeDone
    \/ FfmpegWrite
    \/ FfmpegClose
    \/ FfmpegError
    \/ ChunkReturn
    \/ DirectReturn
    \/ SummaryReturn
    \/ GeminiReturn

ReconnectSpec == Init /\ [][ReconnectNext]_vars

\* ------------------------------------------- the live-streaming revision
\* The first revision in server.js: the whole file is streamed to the live
\* API by streamFileToDeepgram.  One job.

\* one sendProgress call of this revision
LiveEv(type) == [type |-> type, sent |-> liveSse]

\* a continuation whose catch block reports the failure and then done
AfterStreamAlwaysDone(settled, evs) ==
    /\ livePc' = "finished"
    /\ liveEvents' =
           IF settled = "resolved"
           THEN evs \o <<LiveEv("status"), LiveEv("done")>>
           ELSE evs \o <<LiveEv("error"), LiveEv("done")>>
    /\ liveFileExists' = FALSE
    /\ liveTimers' = IF liveSse THEN liveTimers + 1 ELSE liveTimers

\* processTranscription after its await: the rest of the try block or the
\* catch block, then finally
AfterStream(settled, evs) ==
    /\ livePc' = "finished"
    /\ liveEvents' =
           IF settled = "resolved"
           THEN evs \o <<LiveEv("status"), LiveEv("done")>>
           ELSE Append(evs, LiveEv("error"))
    /\ liveFileExists' = FALSE
    /\ liveTimers' = IF liveSse THEN liveTimers + 1 ELSE liveTimers

\* resolve() or reject(): a promise settles on the first call only, and the
\* function that awaits it goes on when the handler has returned
Settle(settled, evs) ==
    IF promise = "pending"
    THEN /\ promise' = settled
         /\ AfterStream(settled, evs)
    ELSE /\ liveEvents' = evs
         /\ UNCHANGED <<promise, livePc, liveFileExists, liveTimers>>

\* deepgramLive.finish() asks the server to close: the readyState it leaves
FinishStates(state) == {state, CLOSING}

\* a cleanup without the test of resolved
CleanupUnguarded(error, state, evs) ==
    /\ resolved' = TRUE
    /\ connectionClosed' = TRUE
    /\ fileStream' = IF fileStream = "reading" THEN "destroyed"
                     ELSE fileStream
    /\ IF state # NoLive /\ state < CLOSING
       THEN deepgramLive' \in FinishStates(state)
       ELSE deepgramLive' = state
    /\ settleCalls' = settleCalls + 1
    /\ Settle(IF error THEN "rejected" ELSE "resolved", evs)

\* cleanup(error), called with the connection in the given readyState
Cleanup(error, state, evs) ==
    IF resolved
    THEN /\ deepgramLive' = state
         /\ liveEvents' = evs
         /\ UNCHANGED <<resolved, connectionClosed, fileStream, promise,
                        settleCalls, livePc, liveFileExists, liveTimers>>
    ELSE /\ resolved' = TRUE
         /\ connectionClosed' = TRUE
         /\ fileStream' = IF fileStream = "reading" THEN "destroyed"
                          ELSE fileStream
         /\ IF state # NoLive /\ state < CLOSING
            THEN deepgramLive' \in FinishStates(state)
            ELSE deepgramLive' = state
         /\ settleCalls' = settleCalls + 1
         /\ Settle(IF error THEN "rejected" ELSE "resolved", evs)

\* POST /transcribe of this revision: processTranscription runs into
\* streamFileToDeepgram, where listen.live returns a connection or throws
LiveTranscribe ==
    /\ livePc = "idle"
    /\ \E s \in BOOLEAN, initError \in BOOLEAN :
        LET evs == <<LiveEv("status"), LiveEv("status")>>
        IN /\ liveSummarize' = s
           /\ IF initError
              THEN Cleanup(TRUE, NoLive, evs)
              ELSE /\ deepgramLive' = CONNECTING
                   /\ livePc' = "streaming"
                   /\ liveEvents' = evs
                   /\ liveFileExists' = TRUE
                   /\ UNCHANGED <<resolved, connectionClosed, fileStream,
                                  promise, settleCalls, liveTimers>>
    /\ UNCHANGED <<dataRead, audioSent, results, liveSse>>
    /\ UNCHANGED <<oneJobVars, jobsVars>>

\* GET /progress/:clientId and req.on('close') of this revision
LiveConnect ==
    /\ livePc # "idle"
    /\ ~liveSse
    /\ liveSse' = TRUE
    /\ UNCHANGED <<livePc, liveSummarize, deepgramLive, fileStream,
                   resolved, connectionClosed, promise, settleCalls,
                   dataRead, audioSent, results, liveEvents,
                   liveFileExists, liveTimers>>
    /\ UNCHANGED <<oneJobVars, jobsVars>>

LiveConnClose ==
    /\ liveSse
    /\ liveSse' = FALSE
    /\ UNCHANGED <<livePc, liveSummarize, deepgramLive, fileStream,
                   resolved, connectionClosed, promise, settleCalls,
                   dataRead, audioSent, results, liveEvents,
                   liveFileExists, liveTimers>>
    /\ UNCHANGED <<oneJobVars, jobsVars>>

\* the setTimeout callback armed by finally
LiveTimerFire ==
    /\ liveTimers > 0
    /\ liveTimers' = liveTimers - 1
    /\ liveSse' = FALSE
    /\ UNCHANGED <<livePc, liveSummarize, deepgramLive, fileStream,
                   resolved, connectionClosed, promise, settleCalls,
                   dataRead, audioSent, results, liveEvents,
                   liveFileExists>>
    /\ UNCHANGED <<oneJobVars, jobsVars>>

\* LiveTranscriptionEvents.Open; it may still arrive after cleanup has
\* asked for the connection to be closed
LiveOpen ==
    /\ \/ deepgramLive = CONNECTING
       \/ deepgramLive = CLOSING /\ fileStream = "none"
    /\ deepgramLive' = IF deepgramLive = CONNECTING THEN OPEN
                       ELSE deepgramLive
    /\ fileStream' = IF connectionClosed THEN fileStream ELSE "reading"
    /\ UNCHANGED <<livePc, liveSummarize, resolved, connectionClosed,
                   promise, settleCalls, dataRead, audioSent, results,
                   liveEvents, liveFileExists, liveSse, liveTimers>>
    /\ UNCHANGED <<oneJobVars, jobsVars>>

\* fileStream.on('data')
LiveFileData ==
    /\ fileStream = "reading"
    /\ dataRead < MaxData
    /\ dataRead' = dataRead + 1
    /\ IF connectionClosed
       THEN UNCHANGED <<audioSent, deepgramLive, liveEvents, resolved,
                        connectionClosed, fileStream, promise,
                        settleCalls, livePc, liveFileExists, liveTimers>>
       ELSE IF deepgramLive = OPEN
       THEN /\ audioSent' = audioSent + 1
            /\ UNCHANGED <<deepgramLive, liveEvents, resolved,
                           connectionClosed, fileStream, promise,
                           settleCalls, livePc, liveFileExists,
                           liveTimers>>
       ELSE /\ Cleanup(TRUE, deepgramLive, liveEvents)
            /\ UNCHANGED audioSent
    /\ UNCHANGED <<liveSummarize, results, liveSse>>
    /\ UNCHANGED <<oneJobVars, jobsVars>>

\* fileStream.on('end')
LiveFileEnd ==
    /\ fileStream = "reading"
    /\ fileStream' = "ended"
    /\ IF ~connectionClosed /\ deepgramLive = OPEN
       THEN deepgramLive' \in FinishStates(deepgramLive)
       ELSE UNCHANGED deepgramLive
    /\ UNCHANGED <<livePc, liveSummarize, resolved, connectionClosed,
                   promise, settleCalls, dataRead, audioSent, results,
                   liveEvents, liveFileExists, liveSse, liveTimers>>
    /\ UNCHANGED <<oneJobVars, jobsVars>>

\* fileStream.on('error')
LiveFileError ==
    /\ fileStream = "reading"
    /\ IF connectionClosed
       THEN UNCHANGED <<deepgramLive, liveEvents, resolved,
                        connectionClosed, fileStream, promise,
                        settleCalls, livePc, liveFileExists, liveTimers>>
       ELSE Cleanup(TRUE, deepgramLive, liveEvents)
    /\ UNCHANGED <<liveSummarize, dataRead, audioSent, results, liveSse>>
    /\ UNCHANGED <<oneJobVars, jobsVars>>

\* handleSummary(data)
HandleSummary(hasSummary, evs) ==
    IF liveSummarize /\ hasSummary
    THEN Append(evs, LiveEv("summary_result"))
    ELSE evs

\* a Transcript handler without the test of connectionClosed
OnTranscriptUnguarded(hasText, evs) ==
    IF hasText THEN Append(evs, LiveEv("partial_transcript")) ELSE evs

\* the first Transcript handler
OnTranscript(hasText, evs) ==
    IF ~connectionClosed /\ hasText
    THEN Append(evs, LiveEv("partial_transcript"))
    ELSE evs

\* LiveTranscriptionEvents.Transcript: both handlers, in the order of
\* their registration
LiveTranscript ==
    /\ deepgramLive \in {OPEN, CLOSING}
    /\ results < MaxResults
    /\ results' = results + 1
    /\ \E hasText \in BOOLEAN, hasSummary \in BOOLEAN :
          liveEvents' = HandleSummary(hasSummary,
                                      OnTranscript(hasText, liveEvents))
    /\ UNCHANGED <<livePc, liveSummarize, deepgramLive, fileStream,
                   resolved, connectionClosed, promise, settleCalls,
                   dataRead, audioSent, liveFileExists, liveSse,
                   liveTimers>>
    /\ UNCHANGED <<oneJobVars, jobsVars>>

\* LiveTranscriptionEvents.Metadata
LiveMetadata ==
    /\ deepgramLive \in {OPEN, CLOSING}
    /\ results < MaxResults
    /\ results' = results + 1
    /\ \E hasSummary \in BOOLEAN :
          liveEvents' = HandleSummary(hasSummary, liveEvents)
    /\ UNCHANGED <<livePc, liveSummarize, deepgramLive, fileStream,
                   resolved, connectionClosed, promise, settleCalls,
                   dataRead, audioSent, liveFileExists, liveSse,
                   liveTimers>>
    /\ UNCHANGED <<oneJobVars, jobsVars>>

\* LiveTranscriptionEvents.Close
LiveCloseEvent ==
    /\ deepgramLive \in {CONNECTING, OPEN, CLOSING}
    /\ Cleanup(FALSE, CLOSED, liveEvents)
    /\ UNCHANGED <<liveSummarize, dataRead, audioSent, results, liveSse>>
    /\ UNCHANGED <<oneJobVars, jobsVars>>

\* LiveTranscriptionEvents.Error
LiveErrorEvent ==
    /\ deepgramLive \in {CONNECTING, OPEN, CLOSING}
    /\ Cleanup(TRUE, deepgramLive, liveEvents)
    /\ UNCHANGED <<liveSummarize, dataRead, audioSent, results, liveSse>>
    /\ UNCHANGED <<oneJobVars, jobsVars>>

LiveNext ==
    \/ LiveTranscribe
    \/ LiveConnect
    \/ LiveConnClose
    \/ LiveTimerFire
    \/ LiveOpen
    \/ LiveFileData
    \/ LiveFileEnd
    \/ LiveFileError
    \/ LiveTranscript
    \/ LiveMetadata
    \/ LiveCloseEvent
    \/ LiveErrorEvent

LiveSpec == Init /\ [][LiveNext]_vars

\* every connection to the live API is closed in the end, by the server
\* after the finish request or an idle time, or by the network
LiveFairSpec == LiveSpec /\ WF_vars(LiveCloseEvent)

\* ------------------------------------------------------------ properties
\* the events of one type, sent to the subscriber or dropped
Calls(type) == {i \in DOMAIN events : events[i].type = type}
\* the events of one type that reached the subscriber
Sent(type) == {i \in Calls(type) : events[i].sent}

\* the plain texts of the chunks 1..n whose provider call succeeded, in
\* increasing chunk number
RECURSIVE ConcatOk(_)
ConcatOk(n) ==
    IF n = 0 THEN <<>>
    ELSE ConcatOk(n - 1) \o (IF outcome[n] = "ok" THEN text[n] ELSE <<>>)

Segmented == outcome[WholeFile] = "none" /\ ~opts.useGemini
Submitted(c) == outcome[c] \in {"inflight", "ok", "fail"}

\* C1: in the segmented path the accumulated transcript is, at every point,
\* the concatenation in increasing chunk number of the plain texts of the
\* chunks attempted so far whose provider call succeeded.
C1_InOrderAccumulation ==
    Segmented => accumulatedTranscript = ConcatOk(MaxChunks)

C1_Witness ==
    /\ pc = "finished"
    /\ Len(chunkPaths) >= 2
    /\ outcome[1] = "ok" /\ outcome[2] = "ok"
    /\ accumulatedTranscript = <<1, 2>>

\* C2 (as claimed): the result of a provider call that was in flight when
\* the cancel request was handled is discarded: no step taken while that
\* call is still the one in flight appends to the accumulated transcript or
\* sends a partial_transcript event.
CallInFlightAtCancel ==
    /\ cancelledAt.pc \in {"chunk_wait", "direct_wait"}
    /\ pc = cancelledAt.pc
    /\ pos = cancelledAt.pos

C2_ResultAfterCancelDiscarded ==
    [][CallInFlightAtCancel =>
         /\ accumulatedTranscript' = accumulatedTranscript
         /\ Sent("partial_transcript")' = Sent("partial_transcript")]_vars

\* C3: when the cancel request is handled while the call of the chunk at
\* position k is in flight, no chunk at a later position is ever submitted
\* to the provider and no chunk file of the job is left on disk.
C3_NoSubmissionAfterCancel ==
    cancelledAt.pc = "chunk_wait" =>
        /\ chunkFiles = {}
        /\ \A j \in (cancelledAt.pos + 1)..Len(chunkPaths) :
               ~Submitted(chunkPaths[j])

C3_Witness ==
    /\ cancelledAt.pc = "chunk_wait"
    /\ cancelledAt.pos < Len(chunkPaths)
    /\ pc = "finished"
    /\ outcome[chunkPaths[Len(chunkPaths)]] = "unread"

\* C4 (as claimed): once a cancel request has been handled, no error event
\* is sent to the subscriber of the job any more.
C4_NoErrorAfterCancel ==
    [][cancelCount > 0 => Sent("error")' = Sent("error")]_vars

\* C5 (as claimed): once the job has run its finally block, no chunk file of
\* the job is left in the uploads directory.
C5_NoChunkFileAfterTerminal ==
    pc = "finished" => chunkFiles = {}

\* C6: every accepted job eventually has sent a done or an error event to
\* sendProgress and has run its finally block.
C6_JobTerminates ==
    (pc # "idle") ~>
        (pc = "finished" /\ Calls("done") \cup Calls("error") # {})

C6_Witness ==
    /\ pc = "finished"
    /\ cancelledAt.pc = "ffmpeg_wait"
    /\ thrown = "none"
    /\ Calls("done") # {}

\* the fatal anomalies: an error reached the top-level catch, or the
\* provider call of direct mode failed
FatalAnomaly == thrown # "none" \/ outcome[WholeFile] = "fail"

\* C7 (as claimed): a job that met a fatal anomaly has produced exactly one
\* error event when it has finished (stated for the jobs none of whose
\* error events was dropped for want of a subscriber).
C7_ExactlyOneError ==
    (pc = "finished" /\ FatalAnomaly /\ Calls("error") = Sent("error")) =>
        Cardinality(Sent("error")) = 1

\* the done events of processTranscription that reached the subscriber
DoneSentByJob == {i \in Sent("done") : events[i].msg = "finished"}

\* C8 (as claimed): a job whose direct-mode provider call failed produces
\* an error event, starts no summarization and sends no done event.
C8_DirectFailureIsFatal ==
    outcome[WholeFile] = "fail" =>
        /\ Calls("error") # {}
        /\ pc # "summary_wait"
        /\ DoneSentByJob = {}

\* C9: a failed provider call of one chunk does not abort the job: the loop
\* goes on, every later chunk is submitted to the provider (unless a cancel
\* request removed its file first), the job ends with done and not in the
\* catch, and the final transcript is the in-order concatenation of the
\* texts of the chunks that did not fail.
C9_ChunkFailureNotFatal ==
    \A i \in 1..Len(chunkPaths) :
        outcome[chunkPaths[i]] = "fail" =>
            /\ pc \in {"chunk_wait", "summary_wait", "finished"}
            /\ thrown = "none"
            /\ pc = "finished" =>
                /\ Calls("done") # {}
                /\ accumulatedTranscript = ConcatOk(MaxChunks)
                /\ \A j \in (i + 1)..Len(chunkPaths) :
                       \/ outcome[chunkPaths[j]] \in {"ok", "fail"}
                       \/ /\ outcome[chunkPaths[j]] = "unread"
                          /\ cancelCount > 0

C9_Witness ==
    /\ pc = "finished"
    /\ cancelCount = 0
    /\ Len(chunkPaths) >= 2
    /\ outcome[chunkPaths[1]] = "fail"
    /\ outcome[chunkPaths[2]] = "ok"
    /\ accumulatedTranscript = text[chunkPaths[2]]
    /\ accumulatedTranscript # <<>>

\* C10 (as claimed): the failed provider call of a chunk is reported by a
\* warning event that names the chunk, and by no error event.
C10_ChunkFailureIsWarning ==
    \A c \in 1..MaxChunks :
        outcome[c] = "fail" =>
            /\ \E i \in Calls("warning") : events[i].seg = c
            /\ \A i \in Calls("error") : events[i].seg # c

\* the step in which the 'close' handler of ffmpeg runs with exit code 0
FfmpegClosesCleanly ==
    /\ pc = "ffmpeg_wait"
    /\ ffmpeg = "running"
    /\ ffmpeg' = "exited"
    /\ ffmpegCode' = 0

\* the error events of the top-level catch
TopLevelErrors == {i \in Calls("error") : events[i].msg = "processing_failed"}

\* C11 (as claimed): when ffmpeg exits with code 0 having written no chunk
\* file (the subscriber being connected), the job is not failed: the
\* original file is submitted to the provider in direct mode, nothing is
\* thrown to the top-level catch and no error event is produced.
C11_ZeroSegmentsFallBack ==
    [][(FfmpegClosesCleanly /\ ffmpegWritten = 0 /\ sseConnections # 0) =>
         /\ thrown' = "none"
         /\ pc' = "direct_wait"
         /\ outcome'[WholeFile] = "inflight"
         /\ TopLevelErrors' = TopLevelErrors]_vars

\* C12 (as claimed): when the duration probe fails, the job goes on with
\* duration Infinity into splitMediaIntoAudioChunks, and a warning event is
\* produced for the failure.
C12_ProbeFailureWarns ==
    [][(pc = "duration_wait" /\ pc' # "duration_wait" /\
        duration' = Infinity) =>
         /\ pc' = "split_probe_wait"
         /\ thrown' = "none"
         /\ Calls("warning")' # Calls("warning")]_vars

\* splitMediaIntoAudioChunks has been called
SegmenterInvoked == pc = "split_probe_wait" \/ ffmpeg # "none"

\* the duration probe of a Deepgram job has called back with an error
DurationProbeFailed ==
    /\ ~opts.useGemini
    /\ pc \notin {"idle", "duration_wait"}
    /\ duration = Infinity

\* C13 (as claimed): in every job, a file that plays at most 30 seconds
\* never has splitMediaIntoAudioChunks called, and a file that plays more
\* than 30 seconds has had it called when the job has finished.
C13_ThresholdDecidesSegmenter ==
    /\ mediaDurationSec <= DIRECT_PROCESSING_THRESHOLD_SEC =>
           ~SegmenterInvoked
    /\ (pc = "finished" /\
        mediaDurationSec > DIRECT_PROCESSING_THRESHOLD_SEC) =>
           SegmenterInvoked

\* C13 (amended): in a Deepgram job whose duration probe reported the play
\* time of the file, splitMediaIntoAudioChunks is called exactly when that
\* time is above 30 seconds, and the call is made in the step that reads
\* the probe; a Gemini job never calls it, and a Deepgram job whose probe
\* failed always does.
C13_ProbedThresholdDecidesSegmenter ==
    /\ (~opts.useGemini /\ duration = mediaDurationSec) =>
           (SegmenterInvoked <=>
                mediaDurationSec > DIRECT_PROCESSING_THRESHOLD_SEC)
    /\ opts.useGemini => ~SegmenterInvoked
    /\ DurationProbeFailed => SegmenterInvoked

C13_Witness ==
    /\ ~opts.useGemini
    /\ mediaDurationSec = DIRECT_PROCESSING_THRESHOLD_SEC + 1
    /\ duration = mediaDurationSec
    /\ ffmpeg = "running"
    /\ cancelCount = 0

\* the summary call of processTranscription has been made
SummaryCallStarted ==
    \E i \in Calls("status") : events[i].msg = "generating_summary"

\* C14: the summary call of a Deepgram job is made only when summarizeEnabled
\* holds, the trimmed accumulated transcript is not empty and geminiModel is
\* there; a job that reached the summary stage with summarizeEnabled and
\* without one of the other two has made no summary call and has produced a
\* warning event that names a missing one.
C14_SummaryPreconditions ==
    /\ SummaryCallStarted =>
           /\ opts.summarizeEnabled
           /\ Len(Trim(accumulatedTranscript)) > 0
           /\ geminiModel
    /\ (/\ ~opts.useGemini
        /\ pc = "finished"
        /\ thrown = "none"
        /\ opts.summarizeEnabled
        /\ ~(geminiModel /\ Len(Trim(accumulatedTranscript)) > 0)) =>
           /\ ~SummaryCallStarted
           /\ Calls("summary_result") = {}
           /\ \E i \in Calls("warning") :
                  \/ /\ events[i].msg = "summary_skipped_no_key"
                     /\ ~geminiModel
                  \/ /\ events[i].msg = "summary_skipped_no_transcript"
                     /\ Len(Trim(accumulatedTranscript)) = 0

C14_Witness ==
    /\ pc = "finished"
    /\ opts.summarizeEnabled
    /\ geminiModel
    /\ outcome[1] = "ok"
    /\ accumulatedTranscript = <<>>
    /\ \E i \in Calls("warning") :
           events[i].msg = "summary_skipped_no_transcript"

\* the done events of processTranscription, sent or dropped
DoneCalledByJob == {i \in Calls("done") : events[i].msg = "finished"}

\* C15: a job that is waiting for its summary call goes on to done, whether
\* the call succeeds or fails, and a Deepgram job that has ended without an
\* error reaching the top-level catch (its summary made, failed or skipped)
\* has produced done.
C15_DoneAfterSummary ==
    /\ (pc = "summary_wait") ~> (pc = "finished" /\ DoneCalledByJob # {})
    /\ []((~opts.useGemini /\ pc = "finished" /\ thrown = "none") =>
             DoneCalledByJob # {})

C15_Witness ==
    /\ pc = "finished"
    /\ \E i \in Calls("error") : events[i].msg = "summary_failed"
    /\ DoneCalledByJob # {}
    /\ cancelCount = 0

\* the step of a cancel handler
CancelHandled == cancelCount' # cancelCount

\* C16 (as claimed): a cancel request handled after the job has run its
\* finally block changes no file, registry or process state, produces no
\* progress event and arms no timer.
C16_CancelAfterTerminalIsNoOp ==
    [][(pc = "finished" /\ CancelHandled) =>
         /\ events' = events
         /\ timers' = timers
         /\ chunkFiles' = chunkFiles
         /\ fileExists' = fileExists
         /\ activeProcesses' = activeProcesses
         /\ ffmpeg' = ffmpeg]_vars

C18_RegistryOnlyWhileRunning ==
    /\ activeProcesses \subseteq {FfmpegHandle}
    /\ activeProcesses # {} => ffmpeg = "running"
    /\ ffmpeg = "exited" => activeProcesses = {}
    /\ pc = "finished" => activeProcesses = {}

C18_Witness ==
    /\ pc = "finished"
    /\ ffmpeg = "exited"
    /\ ffmpegCode = 1
    /\ cancelCount = 0
    /\ activeProcesses = {}

\* an ffprobe started by exec has not called back yet
ProbeRunning == pc \in {"duration_wait", "split_probe_wait"}

\* C19 (as claimed): when a cancel request has been handled, no external
\* process of the job is left running without having been signalled,
\* neither an ffprobe nor ffmpeg.
C19_CancelStopsEveryProcess ==
    [][CancelHandled => (~ProbeRunning' /\ ffmpeg' # "running")]_vars

\* C20 (as claimed): when ffmpeg exits with code 0 and has written chunk
\* files while no subscriber is connected, the job goes on as it does with
\* a subscriber: nothing is thrown and the chunks are transcribed in order.
C20_DisconnectDoesNotFailJob ==
    [][(FfmpegClosesCleanly /\ sseConnections = 0 /\ chunkFiles # {}) =>
         /\ thrown' = "none"
         /\ chunkPaths' = SortedSeq(chunkFiles)
         /\ pc' = "chunk_wait"]_vars

\* the ffprobe analysis gave nothing to compute a bitrate above zero from
ProbeUnusable ==
    \/ probe.failed
    \/ probe.duration \in {Missing, NaN}
    \/ probe.size \in {Missing, NaN, 0}

\* C24: the -segment_time given to ffmpeg is always between 10 and 900
\* seconds, and it is the default of 600 seconds when the ffprobe analysis
\* failed, when duration or size is missing or not a number, and when the
\* size (hence the bitrate) is zero.
C24_SegmentDurationInRange ==
    /\ MinSegmentDurationSec <= segmentDurationSec
    /\ segmentDurationSec <= MaxSegmentDurationSec
    /\ (ffmpeg # "none" /\ ProbeUnusable) =>
           segmentDurationSec = DefaultSegmentDurationSec

C24_Witness ==
    /\ ffmpeg = "running"
    /\ ~probe.failed
    /\ probe.duration = 1200
    /\ probe.size = 0
    /\ segmentDurationSec = DefaultSegmentDurationSec

\* the least n with n * b >= a, for a >= 0 and b > 0
Ceiling(a, b) ==
    CHOOSE n \in 0..(a \div b + 1) : n * b >= a /\ (n - 1) * b < a

Clamp(x, lo, hi) == IF x < lo THEN lo ELSE IF x > hi THEN hi ELSE x

\* C30: the target size is the requested one when that is positive and
\* 10 MB otherwise; when the ffprobe analysis succeeded with a positive
\* bitrate, the -segment_time given to ffmpeg is
\* clamp(ceil(duration / ceil(size / target bytes)), 10, 900).
C30_SegmentDurationFormula ==
    /\ \A raw \in SegRequestedChunkSizes :
           EffectiveChunkSizeMB(EndpointChunkSizeMB(raw)) =
               IF raw > 0 THEN raw ELSE 10
    /\ (ffmpeg # "none" /\ ~ProbeUnusable) =>
           segmentDurationSec =
               Clamp(Ceiling(probe.duration,
                             Ceiling(probe.size, opts.chunkSizeMB * MB)),
                     10, 900)

C30_Witness ==
    /\ ffmpeg = "running"
    /\ probe = [failed |-> FALSE, duration |-> 1200, size |-> 25 * MB + 1]
    /\ opts.chunkSizeMB = 5
    /\ segmentDurationSec = 200

\* C21 (as claimed): when the job has run its finally block and a subscriber
\* is registered, whenever it connected, the server eventually closes and
\* unregisters its connection.
C21_ChannelEventuallyClosed ==
    (pc = "finished" /\ sseConnections # 0) ~> (sseConnections = 0)

\* C22: the uploaded file is gone once the job has run its finally block,
\* cancelled or not, and it is on disk as long as the job has not got
\* there and as long as ffmpeg runs.
C22_UploadDeletedAtExit ==
    /\ pc = "finished" => ~fileExists
    /\ pc \notin {"idle", "finished"} => fileExists
    /\ ffmpeg \in {"running", "signalled"} => fileExists

C22_Witness ==
    /\ pc = "finished"
    /\ cancelledAt.pc = "direct_wait"
    /\ ~fileExists

\* generateContent of transcribeWithGemini has been called
GeminiRequestSent ==
    \E i \in Calls("status") : events[i].msg = "sending_request"

\* C23: for a file longer than MAX_INLINE_BYTES transcribeWithGemini never
\* calls generateContent and the job ends with an error event; a file of
\* exactly MAX_INLINE_BYTES whose MIME type is known is sent.
C23_InlineCeiling ==
    /\ fileBufferLength > MAX_INLINE_BYTES =>
           /\ ~GeminiRequestSent
           /\ pc = "finished"
           /\ thrown \in {"file_too_large", "mime_undetermined"}
           /\ Calls("error") # {}
    /\ (fileBufferLength = MAX_INLINE_BYTES /\
        thrown # "mime_undetermined") => GeminiRequestSent

C23_Witness ==
    /\ fileBufferLength = MAX_INLINE_BYTES + 1
    /\ thrown = "file_too_large"
    /\ Calls("error") # {}

\* the chunk numbers of the partial_transcript events, in emission order
PartialSegs ==
    LET sel == SelectSeq(events, LAMBDA e : e.type = "partial_transcript")
    IN [i \in 1..Len(sel) |-> sel[i].seg]

\* C25 (as claimed): a segmented job without cancel request, all of whose
\* provider calls succeeded, has produced one partial_transcript event per
\* chunk, in chunk order, and one done event, which is its last event.
C25_OnePartialPerSegment ==
    (/\ Segmented
     /\ pc = "finished"
     /\ thrown = "none"
     /\ cancelCount = 0
     /\ \A j \in 1..Len(chunkPaths) : outcome[chunkPaths[j]] = "ok") =>
        /\ PartialSegs = chunkPaths
        /\ Cardinality(Calls("done")) = 1
        /\ events[Len(events)].type = "done"

\* ------------------------------------------- two jobs, the shared stores
\* sseConnections, activeProcesses and the uploads directory are shared by
\* every job of the server.  Here they are kept whole, keyed by clientId,
\* and two Deepgram jobs run side by side.  A step of a job is reduced to
\* what it does to the stores and to the locals of its processTranscription
\* call; the summary call, which touches neither, is left out.

\* a filter that looks at the extension only
ChunksOfAnyJob(files, clientId) == {f \in files : EndsWith(f, <<".mp3">>)}

\* readdirSync(uploadsDir).filter(f => f.startsWith(`${clientId}_chunk_`)
\*                                    && f.endsWith('.mp3'))
ChunksOf(files, clientId) ==
    {f \in files : /\ StartsWith(f, <<clientId, "_chunk_">>)
                   /\ EndsWith(f, <<".mp3">>)}

\* Array.prototype.sort on file names: names of one job by chunk number
SortedNames(S) ==
    CHOOSE q \in [1..Cardinality(S) -> S] :
        /\ Range(q) = S
        /\ \A i \in 1..(Cardinality(S) - 1) :
               q[i][1] = q[i + 1][1] => q[i][3] < q[i + 1][3]

\* sendProgress(clientId, type, data): written to sseConnections[clientId]
\* if there is one
SendTo(conns, clientId, type) ==
    IF conns[clientId] # NoConn THEN [conns EXCEPT ![clientId] = type]
    ELSE conns

\* catch (when failed) and finally of processTranscription
EndOf(clientId, job, conns, files, failed) ==
    LET conns1 == IF failed THEN SendTo(conns, clientId, "error") ELSE conns
    IN /\ sseConnectionsAll' = conns1
       /\ uploadsDir' = (files \ {UploadName(clientId)}) \
                            Range(job.chunkPaths)
       /\ jobs' = [jobs EXCEPT ![clientId] =
                     [job EXCEPT !.pc = "finished",
                                 !.timers = IF conns1[clientId] # NoConn
                                            THEN @ + 1 ELSE @]]

\* the for loop over chunkPaths from position p, up to the next awaited call
RECURSIVE LoopOf(_, _, _, _, _)
LoopOf(clientId, paths, p, conns, files) ==
    IF p > Len(paths)
    THEN [pos |-> p, inflight |-> FALSE,
          conns |-> SendTo(conns, clientId, "status")]
    ELSE LET conns1 == SendTo(conns, clientId, "status")
         IN IF paths[p] \in files
            THEN [pos |-> p, inflight |-> TRUE, conns |-> conns1]
            ELSE LoopOf(clientId, paths, p + 1,
                        SendTo(conns1, clientId, "error"), files)

\* the loop from position p, then done and the finally block when it is over
SegmentedOf(clientId, job, p, conns, files) ==
    LET l == LoopOf(clientId, job.chunkPaths, p, conns, files)
    IN IF l.inflight
       THEN /\ jobs' = [jobs EXCEPT ![clientId] =
                          [job EXCEPT !.pc = "chunk_wait", !.pos = l.pos]]
            /\ sseConnectionsAll' = l.conns
            /\ uploadsDir' = files
       ELSE EndOf(clientId, [job EXCEPT !.pos = l.pos],
                  SendTo(l.conns, clientId, "done"), files, FALSE)

\* POST /transcribe: multer has stored the upload; processTranscription
\* runs to the exec of the ffprobe duration command
TranscribeOf(clientId) ==
    /\ jobs[clientId].pc = "idle"
    /\ jobs' = [jobs EXCEPT ![clientId].pc = "duration_wait"]
    /\ uploadsDir' = uploadsDir \cup {UploadName(clientId)}
    /\ sseConnectionsAll' = SendTo(sseConnectionsAll, clientId, "status")
    /\ UNCHANGED <<activeProcessesAll, oneJobVars, liveVars>>

\* GET /progress/:clientId
ConnectOf(clientId) ==
    /\ jobs[clientId].pc # "idle"
    /\ sseConnectionsAll' =
           [sseConnectionsAll EXCEPT ![clientId] = "connected"]
    /\ UNCHANGED <<jobs, activeProcessesAll, uploadsDir, oneJobVars, liveVars>>

\* req.on('close')
ConnCloseOf(clientId) ==
    /\ sseConnectionsAll[clientId] # NoConn
    /\ sseConnectionsAll' = [sseConnectionsAll EXCEPT ![clientId] = NoConn]
    /\ UNCHANGED <<jobs, activeProcessesAll, uploadsDir, oneJobVars, liveVars>>

\* a setTimeout callback armed by finally or by the cancel handler
TimerFireOf(clientId) ==
    /\ jobs[clientId].timers > 0
    /\ jobs' = [jobs EXCEPT ![clientId].timers = @ - 1]
    /\ sseConnectionsAll' = [sseConnectionsAll EXCEPT ![clientId] = NoConn]
    /\ UNCHANGED <<activeProcessesAll, uploadsDir, oneJobVars, liveVars>>

\* POST /cancel/:clientId; a process is named after the job that started it
CancelOf(clientId) ==
    /\ jobs[clientId].pc # "idle"
    /\ jobs[clientId].cancelCount < MaxCancel
    /\ LET connected == sseConnectionsAll[clientId] # NoConn
           killed == [id \in JobIds |->
                        IF id \in activeProcessesAll[clientId]
                        THEN [jobs[id] EXCEPT
                                 !.ffmpeg = KillProcesses({FfmpegHandle}, @)]
                        ELSE jobs[id]]
       IN /\ jobs' = [killed EXCEPT
                         ![clientId].cancelCount = @ + 1,
                         ![clientId].timers = IF connected THEN @ + 1 ELSE @]
          /\ sseConnectionsAll' =
                 SendTo(SendTo(sseConnectionsAll, clientId, "status"),
                        clientId, "done")
    /\ activeProcessesAll' = [activeProcessesAll EXCEPT ![clientId] = {}]
    /\ uploadsDir' = uploadsDir \ ChunksOf(uploadsDir, clientId)
    /\ UNCHANGED <<oneJobVars, liveVars>>

\* the ffprobe duration command calls back: the direct call is sent, or the
\* ffprobe analysis of splitMediaIntoAudioChunks is started
DurationProbeDoneOf(clientId) ==
    /\ jobs[clientId].pc = "duration_wait"
    /\ \E direct \in BOOLEAN :
           jobs' = [jobs EXCEPT ![clientId].pc =
                       IF direct THEN "direct_wait" ELSE "probe_wait"]
    /\ sseConnectionsAll' = SendTo(sseConnectionsAll, clientId, "status")
    /\ UNCHANGED <<activeProcessesAll, uploadsDir, oneJobVars, liveVars>>

\* the ffprobe analysis calls back: ffmpeg is started and registered
SplitProbeDoneOf(clientId) ==
    /\ jobs[clientId].pc = "probe_wait"
    /\ jobs' = [jobs EXCEPT ![clientId].pc = "ffmpeg_wait",
                            ![clientId].ffmpeg = "running"]
    /\ activeProcessesAll' =
           [activeProcessesAll EXCEPT ![clientId] = @ \cup {clientId}]
    /\ sseConnectionsAll' = SendTo(sseConnectionsAll, clientId, "status")
    /\ UNCHANGED <<uploadsDir, oneJobVars, liveVars>>

\* ffmpeg of the job writes its next chunk file
FfmpegWriteOf(clientId) ==
    /\ jobs[clientId].ffmpeg \in {"running", "signalled"}
    /\ jobs[clientId].ffmpegWritten < MaxChunks
    /\ jobs' = [jobs EXCEPT ![clientId].ffmpegWritten = @ + 1]
    /\ uploadsDir' = uploadsDir \cup
           {ChunkName(clientId, jobs[clientId].ffmpegWritten + 1)}
    /\ UNCHANGED <<sseConnectionsAll, activeProcessesAll, oneJobVars, liveVars>>

\* ffmpegProcess.on('close') of the job, and what processTranscription
\* does next
FfmpegCloseOf(clientId) ==
    /\ jobs[clientId].pc = "ffmpeg_wait"
    /\ jobs[clientId].ffmpeg \in {"running", "signalled"}
    /\ \E code \in ExitCodes(jobs[clientId].ffmpeg) :
        LET chunks == ChunksOf(uploadsDir, clientId)
            v == FfmpegCloseVerdict(code,
                                    sseConnectionsAll[clientId] # NoConn,
                                    Cardinality(chunks))
            job == [jobs[clientId] EXCEPT !.ffmpeg = "exited"]
            found == SendTo(sseConnectionsAll, clientId, "status")
        IN CASE v = "resolve" ->
                  SegmentedOf(clientId,
                              [job EXCEPT !.chunkPaths = SortedNames(chunks)],
                              1, found, uploadsDir)
             [] v = "no_chunks" ->
                  EndOf(clientId, job, found, uploadsDir, TRUE)
             [] OTHER ->
                  EndOf(clientId, job, sseConnectionsAll, uploadsDir, TRUE)
    /\ activeProcessesAll' =
           [activeProcessesAll EXCEPT ![clientId] = Unregister(@, clientId)]
    /\ UNCHANGED <<oneJobVars, liveVars>>

\* ffmpegProcess.on('error') of the job
FfmpegErrorOf(clientId) ==
    /\ jobs[clientId].pc = "ffmpeg_wait"
    /\ jobs[clientId].ffmpeg = "running"
    /\ jobs[clientId].ffmpegWritten = 0
    /\ EndOf(clientId, [jobs[clientId] EXCEPT !.ffmpeg = "exited"],
             sseConnectionsAll, uploadsDir, TRUE)
    /\ activeProcessesAll' =
           [activeProcessesAll EXCEPT ![clientId] = Unregister(@, clientId)]
    /\ UNCHANGED <<oneJobVars, liveVars>>

\* the provider call of the job's chunk at position pos returns or fails
ChunkReturnOf(clientId) ==
    /\ jobs[clientId].pc = "chunk_wait"
    /\ LET job == jobs[clientId]
           c == job.chunkPaths[job.pos]
       IN \E ret \in {Null} \cup UnitTexts(c[3]) :
            SegmentedOf(clientId,
                        [job EXCEPT !.accumulatedTranscript =
                                        AccumulateChunk(@, ret)],
                        job.pos + 1,
                        SendTo(sseConnectionsAll, clientId,
                               IF ret = Null THEN "error"
                               ELSE IF ret = <<>> THEN
                                   sseConnectionsAll[clientId]
                               ELSE "partial_transcript"),
                        UnlinkChunk(uploadsDir, c))
    /\ UNCHANGED <<activeProcessesAll, oneJobVars, liveVars>>

\* the provider call on the whole file returns or fails
DirectReturnOf(clientId) ==
    /\ jobs[clientId].pc = "direct_wait"
    /\ LET job == jobs[clientId]
       IN \E ret \in {Null} \cup UnitTexts(0) :
            EndOf(clientId,
                  [job EXCEPT !.accumulatedTranscript =
                                  AccumulateChunk(@, ret)],
                  SendTo(SendTo(sseConnectionsAll, clientId,
                                IF ret = Null THEN "error"
                                ELSE IF ret = <<>> THEN
                                    sseConnectionsAll[clientId]
                                ELSE "partial_transcript"),
                         clientId, "done"),
                  uploadsDir, FALSE)
    /\ UNCHANGED <<activeProcessesAll, oneJobVars, liveVars>>

\* one step of, or one request about, the job of this clientId
StepOf(clientId) ==
    \/ TranscribeOf(clientId)
    \/ ConnectOf(clientId)
    \/ ConnCloseOf(clientId)
    \/ TimerFireOf(clientId)
    \/ CancelOf(clientId)
    \/ DurationProbeDoneOf(clientId)
    \/ SplitProbeDoneOf(clientId)
    \/ FfmpegWriteOf(clientId)
    \/ FfmpegCloseOf(clientId)
    \/ FfmpegErrorOf(clientId)
    \/ ChunkReturnOf(clientId)
    \/ DirectReturnOf(clientId)

JobsNext ==
    \/ \E id \in JobIds : TranscribeOf(id)
    \/ \E id \in JobIds : ConnectOf(id)
    \/ \E id \in JobIds : ConnCloseOf(id)
    \/ \E id \in JobIds : TimerFireOf(id)
    \/ \E id \in JobIds : CancelOf(id)
    \/ \E id \in JobIds : DurationProbeDoneOf(id)
    \/ \E id \in JobIds : SplitProbeDoneOf(id)
    \/ \E id \in JobIds : FfmpegWriteOf(id)
    \/ \E id \in JobIds : FfmpegCloseOf(id)
    \/ \E id \in JobIds : FfmpegErrorOf(id)
    \/ \E id \in JobIds : ChunkReturnOf(id)
    \/ \E id \in JobIds : DirectReturnOf(id)

JobsSpec == Init /\ [][JobsNext]_vars

\* what belongs to the job of a clientId: its registered processes, its
\* chunk files, its upload, the locals of its processTranscription call (the
\* accumulated transcript among them) and its progress channel
OwnedBy(clientId) ==
    [processes |-> activeProcessesAll[clientId],
     chunks |-> uploadsDir \cap
                    {ChunkName(clientId, n) : n \in 1..MaxChunks},
     upload |-> UploadName(clientId) \in uploadsDir,
     job |-> jobs[clientId],
     channel |-> sseConnectionsAll[clientId]]

\* C26: a step of the job of clientId a, its cancel request and its finally
\* block included, changes nothing that belongs to the job of another
\* clientId b.
C26_JobsIsolated ==
    [][\A a \in JobIds : StepOf(a) =>
           \A b \in JobIds \ {a} : OwnedBy(b)' = OwnedBy(b)]_vars

C26_Witness ==
    /\ jobs["a"].cancelCount > 0
    /\ jobs["a"].pc = "finished"
    /\ jobs["b"].pc = "chunk_wait"
    /\ jobs["b"].pos = 2
    /\ jobs["b"].accumulatedTranscript # <<>>
    /\ jobs["b"].cancelCount = 0
    /\ ChunkName("b", 2) \in uploadsDir
    /\ UploadName("b") \in uploadsDir
    /\ sseConnectionsAll["b"] # NoConn

\* C27 (as claimed): without any cancel request, an ffprobe or ffmpeg
\* process of the job that is running is eventually ended.
C27_ProcessesTimeOut ==
    (cancelCount = 0 /\ (ProbeRunning \/ ffmpeg = "running")) ~>
        (cancelCount > 0 \/ ~(ProbeRunning \/ ffmpeg = "running"))

\* the audio units whose provider call is in flight
InFlight == {u \in Units : outcome[u] = "inflight"}

\* C28: at most one provider call is in flight; while the job waits for
\* the call of the chunk at position pos, that call is the one in flight
\* and the attempt of every earlier chunk is over.
C28_OneCallInFlight ==
    /\ Cardinality(InFlight) <= 1
    /\ InFlight # {} => pc \in {"chunk_wait", "direct_wait"}
    /\ pc = "chunk_wait" =>
           /\ InFlight = {chunkPaths[pos]}
           /\ \A j \in 1..(pos - 1) :
                  outcome[chunkPaths[j]] \in {"ok", "fail", "unread"}
           /\ \A j \in (pos + 1)..Len(chunkPaths) :
                  outcome[chunkPaths[j]] = "none"

C28_Witness ==
    /\ pc = "chunk_wait"
    /\ pos = 2
    /\ outcome[chunkPaths[1]] = "ok"
    /\ outcome[chunkPaths[2]] = "inflight"
    /\ cancelCount = 0

\* C29: while the job waits for the provider call of the chunk at position
\* pos, the file of no earlier chunk is on disk, whether its attempt
\* succeeded or failed.
C29_ChunkFileDeletedAfterAttempt ==
    pc = "chunk_wait" =>
        \A j \in 1..(pos - 1) : chunkPaths[j] \notin chunkFiles

C29_Witness ==
    /\ pc = "chunk_wait"
    /\ pos = 2
    /\ outcome[chunkPaths[1]] = "fail"
    /\ chunkPaths[1] \notin chunkFiles
    /\ chunkPaths[2] \in chunkFiles
    /\ cancelCount = 0

\* C31 (as claimed): a Gemini job with summarizeEnabled whose response had
\* no summary marker (so that no summary_result event was produced) and
\* that ended without error has produced the response as partial_transcript
\* and a warning event.
C31_MissingMarkerWarns ==
    (/\ opts.useGemini
     /\ opts.summarizeEnabled
     /\ pc = "finished"
     /\ thrown = "none"
     /\ Calls("summary_result") = {}) =>
        /\ Calls("partial_transcript") # {}
        /\ Calls("warning") # {}

\* the step is the return of a successful provider call for audio unit c
\* of a job with diarizeEnabled, and it is the step that a response without
\* paragraphs makes
ReturnsWithoutParagraphs(c) ==
    /\ opts.diarizeEnabled
    /\ outcome[c] = "inflight"
    /\ \E res \in ProviderResults(c) :
          /\ res.ok
          /\ ~res.paragraphs
          /\ res.plain # <<>>
          /\ outcome'[c] = "ok"
          /\ text'[c] = res.plain
          /\ accumulatedTranscript' =
                 AccumulateChunk(accumulatedTranscript, res.plain)

\* C32 (as claimed): when diarizeEnabled holds and the response of the
\* provider for a unit has no paragraphs, the unit succeeds, its plain text
\* is accumulated and produced as a partial_transcript event, no error
\* event is produced for it, and a warning event is produced.
C32_MissingParagraphsWarn ==
    [][\A c \in Units : ReturnsWithoutParagraphs(c) =>
           /\ \E i \in Calls("partial_transcript")' :
                  i > Len(events) /\ events'[i].seg = c
           /\ \A i \in Calls("error")' : i > Len(events) => events'[i].seg # c
           /\ \E i \in Calls("warning")' : i > Len(events)]_vars

\* the calls of transcribeWithGemini
InlineCalls ==
    {i \in Calls("status") : events[i].msg = "processing_with_model"}

\* the ffprobe duration command has been started
ProberInvoked ==
    \/ pc = "duration_wait"
    \/ \E i \in Calls("status") :
           events[i].msg \in {"duration_unknown", "file_duration"}

\* transcribeChunkPrerecorded has been called
BatchProviderInvoked == \E u \in Units : outcome[u] # "none"

\* C33 (as claimed): a job whose model name starts with 'gemini-' makes
\* exactly one call of transcribeWithGemini and never starts ffprobe,
\* splitMediaIntoAudioChunks or transcribeChunkPrerecorded; any other job
\* never calls transcribeWithGemini.
C33_ModelDecidesProvider ==
    /\ (opts.useGemini /\ pc # "idle") =>
           /\ Cardinality(InlineCalls) = 1
           /\ ~ProberInvoked
           /\ ~SegmenterInvoked
           /\ ~BatchProviderInvoked
    /\ ~opts.useGemini =>
           /\ InlineCalls = {}
           /\ pc # "gemini_wait"

\* C33 (amended): the same, with exactly one call of transcribeWithGemini
\* when geminiModel is there and none when it is not, in which case the job
\* has ended with an error event.
C33_ModelDecidesProviderWhenConfigured ==
    /\ (opts.useGemini /\ pc # "idle") =>
           /\ Cardinality(InlineCalls) = (IF geminiModel THEN 1 ELSE 0)
           /\ ~geminiModel =>
                  /\ pc = "finished"
                  /\ thrown = "gemini_not_configured"
                  /\ Calls("error") # {}
           /\ ~ProberInvoked
           /\ ~SegmenterInvoked
           /\ ~BatchProviderInvoked
    /\ ~opts.useGemini =>
           /\ InlineCalls = {}
           /\ pc # "gemini_wait"

C33_Witness ==
    /\ opts.useGemini
    /\ geminiModel
    /\ pc = "finished"
    /\ thrown = "none"
    /\ Cardinality(InlineCalls) = 1
    /\ Calls("partial_transcript") # {}

\* C34 (as claimed): once a done or an error event has been produced for
\* the job, by processTranscription, by a provider function or by the
\* cancel handler, no further event is produced for it.
C34_TerminalEventIsLast ==
    [][Calls("done") \cup Calls("error") # {} => events' = events]_vars

\* C35 (as claimed): once a cancel request has been handled, the job
\* starts no summary call.
C35_NoSummaryAfterCancel ==
    [][cancelCount > 0 => (SummaryCallStarted' => SummaryCallStarted)]_vars

\* C36 (as claimed): when ffmpeg was ended by the signal of a cancel
\* request ('close' with code null), the job never has chunk paths and
\* never waits for the provider call of a chunk.
C36_SignalledSegmenterYieldsNothing ==
    ffmpegCode = NullCode =>
        /\ chunkPaths = <<>>
        /\ pc # "chunk_wait"
        /\ \A c \in 1..MaxChunks : outcome[c] = "none"

\* C37 (as claimed): the 'close' of a connection other than the registered
\* one, while the registered one is open, leaves the registered connection
\* registered.
C37_OlderCloseKeepsNewer ==
    [][\A c \in openConns :
           (/\ c # sseConnections
            /\ sseConnections \in openConns
            /\ openConns' = openConns \ {c}) =>
               sseConnections' = sseConnections]_vars

\* the sendProgress calls of one type in the live-streaming revision
LiveCalls(type) == {i \in DOMAIN liveEvents : liveEvents[i].type = type}

\* C38: streamFileToDeepgram calls resolve or reject at most once and its
\* promise is settled exactly when it has; once it is settled no
\* partial_transcript event is produced and no audio is sent on the
\* connection; and a stream that has been started is settled in the end.
C38_StreamSettlesOnce ==
    /\ [](/\ settleCalls <= 1
          /\ promise = "pending" <=> settleCalls = 0)
    /\ [][promise # "pending" =>
             /\ audioSent' = audioSent
             /\ LiveCalls("partial_transcript")' =
                    LiveCalls("partial_transcript")]_vars
    /\ (livePc = "streaming") ~> (promise # "pending")

C38_Witness ==
    /\ promise = "rejected"
    /\ settleCalls = 1
    /\ deepgramLive = CLOSED
    /\ fileStream = "destroyed"
    /\ audioSent > 0
    /\ results = MaxResults
    /\ LiveCalls("partial_transcript") # {}

\* C39: in the live-streaming revision a job that has not ended has
\* produced no done and no error event, and a job that has ended has
\* produced exactly one of them, done if the promise of
\* streamFileToDeepgram was resolved and error if it was rejected, and its
\* uploaded file is deleted.
C39_OneTerminalEventLive ==
    /\ livePc = "finished" <=> promise # "pending"
    /\ promise = "pending" =>
           LiveCalls("done") \cup LiveCalls("error") = {}
    /\ promise = "resolved" =>
           /\ Cardinality(LiveCalls("done")) = 1
           /\ LiveCalls("error") = {}
           /\ ~liveFileExists
    /\ promise = "rejected" =>
           /\ Cardinality(LiveCalls("error")) = 1
           /\ LiveCalls("done") = {}
           /\ ~liveFileExists

C39_Witness ==
    /\ promise = "rejected"
    /\ livePc = "finished"
    /\ deepgramLive = CLOSED
    /\ Cardinality(LiveCalls("error")) = 1
    /\ LiveCalls("partial_transcript") # {}
    /\ ~liveFileExists


====
